---- MODULE Spec2Model ----
(***************************************************************************)
(* Model of the food search endpoint GET /api/v1/search                    *)
(* (src/routes/search.js).                                                 *)
(*                                                                         *)
(* Text is a sequence of one-character strings.  The fractional signals    *)
(* the engine reports (similarity, ts_rank) are decimals with two places,  *)
(* written as integers counting hundredths: 0.10 is 10, 0.2 is 20.  The    *)
(* handler reads them as IEEE doubles and computes smart_score in doubles; *)
(* a double is written [h, e]: h hundredths plus e units of 2^-59 / 100.   *)
(* The storage engine (PostgreSQL) and the cache are collaborators: the    *)
(* SQL text of each statement is modelled by what the statement selects,   *)
(* the engine's text-search and trigram scores are values it reports.      *)
(***************************************************************************)
EXTENDS Integers, Sequences, FiniteSets, TLC

\* ------------------------------------------------------------------ bounds

\* Longest query text drawn in the text-level specifications.
MaxQLen == 3
\* Longest food_name and longest description drawn in the text-level
\* specification.
MaxTextLen == 3
MaxDescLen == 2
\* Requests handled in one behaviour of the endpoint specification.
MaxRequests == 2

\* ------------------------------------------------------------------- text

Quote == "\""
Space == " "
Newline == "\n"

\* Characters String.prototype.trim removes and /\s/ matches.
IsSpace(c) == c \in {Space, Newline}

\* Characters the regular expression atom . does not match.
IsLineTerminator(c) == c = Newline

\* q when the request carries no q, or one that is not a string.
NoQ == <<"undefined">>
\* limit / offset when the request does not carry them.
NoParam == <<"undefined">>

LowerChar(c) == IF c = "A" THEN "a" ELSE IF c = "B" THEN "b" ELSE c

Lower(s) == [i \in 1..Len(s) |-> LowerChar(s[i])]

RECURSIVE TrimStart(_)
TrimStart(s) ==
  IF s # <<>> /\ IsSpace(Head(s)) THEN TrimStart(Tail(s)) ELSE s

RECURSIVE TrimEnd(_)
TrimEnd(s) ==
  IF s # <<>> /\ IsSpace(s[Len(s)]) THEN TrimEnd(SubSeq(s, 1, Len(s) - 1)) ELSE s

\* String.prototype.trim
Trim(s) == TrimEnd(TrimStart(s))

\* s.slice(1, -1)
SliceInner(s) == SubSeq(s, 2, Len(s) - 1)

\* Case-insensitive equality (ILIKE without wildcards, the i flag).
EqualsNoCase(a, b) == Lower(a) = Lower(b)

\* text ILIKE prefix || '%'
StartsWithNoCase(text, prefix) ==
  /\ Len(prefix) <= Len(text)
  /\ EqualsNoCase(SubSeq(text, 1, Len(prefix)), prefix)

\* The query occurs in text at position i, letters compared without case.
OccursAt(text, query, i) ==
  /\ i >= 1
  /\ i + Len(query) - 1 <= Len(text)
  /\ EqualsNoCase(SubSeq(text, i, i + Len(query) - 1), query)

\* text ILIKE '%' || w || '%'
ContainsNoCase(text, w) == \E i \in 1..(Len(text) + 1) : OccursAt(text, w, i)

\* q.split(/\s+/): the pieces between the maximal runs of whitespace, the
\* empty piece before a leading run and after a trailing run included.
RECURSIVE SplitFrom(_, _)
SplitFrom(s, cur) ==
  IF s = <<>> THEN <<cur>>
  ELSE IF IsSpace(Head(s))
       THEN <<cur>> \o SplitFrom(TrimStart(s), <<>>)
       ELSE SplitFrom(Tail(s), Append(cur, Head(s)))

SplitWhitespace(s) == SplitFrom(s, <<>>)

\* .filter(Boolean) on an array of strings: the empty strings are dropped.
FilterNonEmpty(ps) == SelectSeq(ps, LAMBDA p : p # <<>>)

\* ---------------------------------------------------------------- numbers

Min(a, b) == IF a <= b THEN a ELSE b
Max(a, b) == IF a >= b THEN a ELSE b

\* ---------------------------------------------------------- JS numbers
\* A JS number v near a decimal with two places is the record [h, e] with
\* v = h / 100 + e * 2^-59 / 100, exactly.  Every double that occurs is a
\* multiple of 2^-59, so e is an integer, and it stays far below 2^59.

Pow2(n) == 2 ^ n

\* 2^n modulo m, for m below 2^10, twenty factors of two at a time
RECURSIVE Pow2Mod(_, _)
Pow2Mod(n, m) ==
  IF n <= 20 THEN Pow2(n) % m ELSE ((Pow2(20) % m) * Pow2Mod(n - 20, m)) % m

\* h / 100 + e units is at least 2^k, for h >= 1.
AtLeastPow2(h, e, k) ==
  LET d == IF k >= 0 THEN h - 100 * Pow2(k) ELSE h * Pow2(0 - k) - 100
  IN  d > 0 \/ (d = 0 /\ e >= 0)

\* The exponent k of the binade [2^k, 2^(k+1)) that holds h / 100 + e units,
\* for h >= 1.
Binade(h, e) ==
  CHOOSE k \in (0 - 7)..12 : AtLeastPow2(h, e, k) /\ ~AtLeastPow2(h, e, k + 1)

\* Round to nearest, ties to even, of the positive real h / 100 + e units to
\* a double: doubles of binade k are the multiples of 2^(k-52), which is
\* g = 100 * 2^(7+k) units; rho is the excess over the multiple below and
\* odd tells whether that multiple is an odd one.
RoundPositive(h, e) ==
  LET k   == Binade(h, e)
      g   == 100 * Pow2(7 + k)
      rho == (Pow2(7 + k) * (((h % 100) * Pow2Mod(52 - k, 100)) % 100) + e) % g
      odd == (Pow2(7 + k) * (((h % 200) * Pow2Mod(52 - k, 200)) % 200) + e)
               % (2 * g) >= g
  IN  IF 2 * rho < g \/ (2 * rho = g /\ ~odd)
      THEN [h |-> h, e |-> e - rho]
      ELSE [h |-> h, e |-> e - rho + g]

\* The double nearest to the real h / 100 + e units.  With h = 0 the real is
\* 0 or the difference of two doubles that nearly cancel, which is a double.
RoundToDouble(h, e) ==
  IF h = 0 THEN [h |-> 0, e |-> e]
  ELSE IF h > 0 THEN RoundPositive(h, e)
  ELSE LET r == RoundPositive(0 - h, 0 - e)
       IN  [h |-> 0 - r.h, e |-> 0 - r.e]

\* The number a decimal of h hundredths is read as (a literal of the source,
\* or a value parsed from the engine's answer).
Double(h) == RoundToDouble(h, 0)

\* a * 2 (exact), a + b, a - b and n * a for an integer n, each rounded once.
DoubleTwice(a) == [h |-> 2 * a.h, e |-> 2 * a.e]
DoubleSum(a, b) == RoundToDouble(a.h + b.h, a.e + b.e)
DoubleDifference(a, b) == RoundToDouble(a.h - b.h, a.e - b.e)
DoubleTimesInt(n, a) == RoundToDouble(n * a.h, n * a.e)

\* a > b and a >= b
DoubleGreater(a, b) == a.h > b.h \/ (a.h = b.h /\ a.e > b.e)
DoubleAtLeast(a, b) == a.h > b.h \/ (a.h = b.h /\ a.e >= b.e)

\* ----------------------------------------------------------- parameters

DigitSeq == <<"0", "1", "2", "3", "4", "5", "6", "7", "8", "9">>
IsDigit(c) == \E i \in 1..10 : DigitSeq[i] = c
DigitVal(c) == (CHOOSE i \in 1..10 : DigitSeq[i] = c) - 1

\* The decimal text of a non-negative integer, as a template literal writes it.
RECURSIVE ToDigits(_)
ToDigits(n) ==
  IF n < 10 THEN <<DigitSeq[n + 1]>>
  ELSE Append(ToDigits(n \div 10), DigitSeq[(n % 10) + 1])

\* The value of the longest prefix of s made of digits, acc being the value
\* read so far.
RECURSIVE DigitsValue(_, _)
DigitsValue(s, acc) ==
  IF s # <<>> /\ IsDigit(Head(s))
  THEN DigitsValue(Tail(s), acc * 10 + DigitVal(Head(s)))
  ELSE acc

\* parseInt(s, 10): leading whitespace is skipped, then an optional sign and
\* the longest run of digits are read; no digit there gives NaN.
ParseInt(s) ==
  LET t    == TrimStart(s)
      neg  == t # <<>> /\ Head(t) = "-"
      body == IF t # <<>> /\ Head(t) \in {"-", "+"} THEN Tail(t) ELSE t
  IN  IF body # <<>> /\ IsDigit(Head(body))
      THEN [nan |-> FALSE,
            val |-> IF neg THEN 0 - DigitsValue(body, 0) ELSE DigitsValue(body, 0)]
      ELSE [nan |-> TRUE, val |-> 0]

\* parseInt(raw, 10) || dflt: NaN and 0 are falsy.  An absent parameter was
\* defaulted to the number dflt, which parses to itself.
ParseIntOr(raw, dflt) ==
  IF raw = NoParam THEN dflt
  ELSE LET p == ParseInt(raw)
       IN  IF p.nan \/ p.val = 0 THEN dflt ELSE p.val

DefaultLimit == 10
MaxLimit == 50

\* A variant of the limit computation without the upper clamp Math.min(., 50).
EffLimit_NoCeiling(raw) == Max(1, ParseIntOr(raw, DefaultLimit))

\* limit = Math.max(1, Math.min(parseInt(limit, 10) || 10, 50))
EffLimit(raw) == Max(1, Min(ParseIntOr(raw, DefaultLimit), MaxLimit))

\* offset = Math.max(0, parseInt(offset, 10) || 0)
EffOffset(raw) == Max(0, ParseIntOr(raw, 0))

\* ------------------------------------------------------------- normalizer

\* A variant of isTrivialQuery that measures the query as given, without
\* trimming it.
isTrivialQuery_Untrimmed(q) == q = <<>> \/ Len(q) < 2

\* isTrivialQuery(q): !q || q.trim().length < 2
isTrivialQuery(q) == q = <<>> \/ Len(Trim(q)) < 2

\* The two early returns of the handler (lines 25-30): the error the request
\* is refused with, or "" when the query is accepted.
ValidationError(q) ==
  IF q = NoQ \/ Len(Trim(q)) = 0 THEN "Missing or invalid query parameter"
  ELSE IF isTrivialQuery(q) THEN "Query too short or not meaningful"
  ELSE ""

\* A variant of the phrase test whose dot also matches line terminators.
isPhrase_DotAll(q) ==
  LET t == Trim(q)
  IN  Len(t) >= 2 /\ t[1] = Quote /\ t[Len(t)] = Quote

\* /^".*"$/.test(q.trim())
isPhrase(q) ==
  LET t == Trim(q)
  IN  /\ Len(t) >= 2
      /\ t[1] = Quote
      /\ t[Len(t)] = Quote
      /\ \A i \in 2..(Len(t) - 1) : ~IsLineTerminator(t[i])

\* isPhrase ? q.trim().slice(1, -1) : null
NoPhrase == <<"null">>
phrase(q) == IF isPhrase(q) THEN SliceInner(Trim(q)) ELSE NoPhrase

\* A variant of the cache key built from the trimmed query.
cacheKey_Trimmed(q, limit, offset) ==
  <<"s", "e", "a", "r", "c", "h", ":">> \o Trim(q) \o <<":">> \o ToDigits(limit)
    \o <<":">> \o ToDigits(offset)

\* `search:${q}:${limit}:${offset}`
cacheKey(q, limit, offset) ==
  <<"s", "e", "a", "r", "c", "h", ":">> \o q \o <<":">> \o ToDigits(limit)
    \o <<":">> \o ToDigits(offset)

\* ------------------------------------------------------------ highlighting

MarkOpen == "<mark>"
MarkClose == "</mark>"

\* A variant of the highlight regex built from the query without escaping:
\* a dot of the query matches any character.
RegexMatchesAt_Unescaped(text, query, i) ==
  /\ i + Len(query) - 1 <= Len(text)
  /\ \A k \in 1..Len(query) :
       query[k] = "." \/ LowerChar(text[i + k - 1]) = LowerChar(query[k])

\* new RegExp(`(${query.replace(/[.*+?^${}()|[\]\\]/g, '\\$&')})`, 'gi') matches
\* at position i of text: every character of the query, escaped, stands for
\* itself, letters compared without case.
RegexMatchesAt(text, query, i) == OccursAt(text, query, i)

\* text.replace(regex, '<mark>$1</mark>'): matches are taken leftmost first
\* and the scan resumes behind each match.
RECURSIVE ReplaceFrom(_, _, _)
ReplaceFrom(text, query, i) ==
  IF i > Len(text) THEN <<>>
  ELSE IF RegexMatchesAt(text, query, i)
       THEN <<MarkOpen>> \o SubSeq(text, i, i + Len(query) - 1) \o <<MarkClose>>
              \o ReplaceFrom(text, query, i + Len(query))
       ELSE <<text[i]>> \o ReplaceFrom(text, query, i + 1)

\* highlightMatch(text, query)
highlightMatch(text, query) ==
  IF text = <<>> \/ query = <<>> THEN text ELSE ReplaceFrom(text, query, 1)

\* ----------------------------------------------------------------- scoring

Min3(a, b, c) == Min(Min(a, b), c)

\* One row of the edit-distance table: the distances from the prefix of a
\* ending in character ca to every prefix of b, given the row before.
RECURSIVE LevRowFrom(_, _, _, _)
LevRowFrom(prev, ca, b, cur) ==
  LET j == Len(cur)
  IN  IF j > Len(b) THEN cur
      ELSE LevRowFrom(prev, ca, b,
             Append(cur, Min3(prev[j + 1] + 1,
                              cur[j] + 1,
                              prev[j] + (IF ca = b[j] THEN 0 ELSE 1))))

RECURSIVE LevRows(_, _, _)
LevRows(a, b, prev) ==
  IF a = <<>> THEN prev
  ELSE LevRows(Tail(a), b, LevRowFrom(prev, Head(a), b, <<prev[1] + 1>>))

\* levenshtein(a, b) of the storage engine.
Levenshtein(a, b) == LevRows(a, b, [j \in 1..(Len(b) + 1) |-> j - 1])[Len(b) + 1]

Has(row, f) == f \in DOMAIN row

\* q.length < 6 ? 0.10 : 0.2
similarityThreshold(q) == IF Len(q) < 6 THEN 10 ELSE 20

\* q.length < 6 ? 5 : 8
levenshteinThreshold(q) == IF Len(q) < 6 THEN 5 ELSE 8

\* A variant of the score in which the similarity is subtracted.
smart_score_SimilaritySubtracted(row) ==
  LET sim  == IF Has(row, "name_similarity") THEN row.name_similarity ELSE 0
      lev  == IF Has(row, "name_lev") THEN row.name_lev ELSE 10
      rank == IF Has(row, "rank") THEN row.rank ELSE 0
  IN  DoubleDifference(DoubleDifference(Double(rank), DoubleTwice(Double(sim))),
                       DoubleTimesInt(lev, Double(15)))

\* row.smart_score = (sim * 2 + rank) - (lev * 0.15), in doubles
smart_score(row) ==
  LET sim  == IF Has(row, "name_similarity") THEN row.name_similarity ELSE 0
      lev  == IF Has(row, "name_lev") THEN row.name_lev ELSE 10
      rank == IF Has(row, "rank") THEN row.rank ELSE 0
  IN  DoubleDifference(DoubleSum(DoubleTwice(Double(sim)), Double(rank)),
                       DoubleTimesInt(lev, Double(15)))

\* A variant of the filter that keeps a row on its score alone.
Accepted_ScoreOnly(row, q) == DoubleGreater(row.smart_score, Double(5))

\* The predicate of .filter(...) on a scored row.
Accepted(row, q) ==
  \/ DoubleGreater(row.smart_score, Double(5))
  \/ /\ Has(row, "name_similarity")
     /\ row.name_similarity # 0
     /\ row.name_similarity > similarityThreshold(q)
  \/ /\ Has(row, "name_lev")
     /\ row.name_lev <= levenshteinThreshold(q)

\* rows.map(row => ({...row, food_name_highlight, description_highlight}))
Highlighted(row, q) ==
  [f \in DOMAIN row \cup {"food_name_highlight", "description_highlight"} |->
     IF f = "food_name_highlight" THEN highlightMatch(row.food_name, q)
     ELSE IF f = "description_highlight" THEN highlightMatch(row.description, q)
     ELSE row[f]]

\* highlighted.map(row => { row.smart_score = ...; return row })
Scored(row) ==
  [f \in DOMAIN row \cup {"smart_score"} |->
     IF f = "smart_score" THEN smart_score(row) ELSE row[f]]

\* Array.prototype.sort((a, b) => b.smart_score - a.smart_score): stable,
\* highest score first.
RECURSIVE InsertByScore(_, _)
InsertByScore(sorted, row) ==
  IF sorted = <<>> THEN <<row>>
  ELSE IF DoubleAtLeast(sorted[Len(sorted)].smart_score, row.smart_score)
       THEN Append(sorted, row)
       ELSE Append(InsertByScore(SubSeq(sorted, 1, Len(sorted) - 1), row),
                   sorted[Len(sorted)])

\* A variant of the sort that leaves the rows in retrieval order.
SortByScore_Unsorted(rows) == rows

RECURSIVE SortByScore(_)
SortByScore(rows) ==
  IF rows = <<>> THEN <<>>
  ELSE InsertByScore(SortByScore(SubSeq(rows, 1, Len(rows) - 1)), rows[Len(rows)])

\* .slice(0, limit)
Slice(rows, limit) == SubSeq(rows, 1, Min(Len(rows), limit))

\* Lines 123-153: highlight, score, filter, sort, slice.
ScoreAndShape(rows, q, limit) ==
  LET scored == [i \in 1..Len(rows) |-> Scored(Highlighted(rows[i], q))]
  IN  Slice(SortByScore(SelectSeq(scored, LAMBDA r : Accepted(r, q))), limit)

\* ----------------------------------------------------------------- storage

\* Table food_nutrition.  Rows 1 and 2 carry the same (food_name,
\* description) under different ids.
Row1 == [id |-> 1, food_name |-> <<"a", "b">>, description |-> <<"b">>,
         image_url |-> <<"u1">>]
Row2 == [id |-> 2, food_name |-> <<"a", "b">>, description |-> <<"b">>,
         image_url |-> <<"u2">>]
Row3 == [id |-> 3,
         food_name |-> <<"b", "b", "b", "b", "b", "b", "b", "b">>,
         description |-> <<"b", Quote>>, image_url |-> <<"u3">>]

\* The tables a behaviour may run against.
Catalogs == {{}, {Row1, Row2}, {Row3}, {Row1, Row2, Row3}}

PairOf(r) == <<r.food_name, r.description>>

\* What the engine's text search and trigram functions report for one
\* (food_name, description) against the query: whether the weighted tsvector
\* matches (@@), ts_rank, similarity(food_name, q), similarity(description, q).
Signals ==
  { [fts |-> FALSE, rank |-> 0,   name_similarity |-> 0,   desc_similarity |-> 0],
    [fts |-> FALSE, rank |-> 0,   name_similarity |-> 15,  desc_similarity |-> 0],
    [fts |-> FALSE, rank |-> 0,   name_similarity |-> 25,  desc_similarity |-> 0],
    [fts |-> TRUE,  rank |-> 160, name_similarity |-> 0,   desc_similarity |-> 0],
    [fts |-> TRUE,  rank |-> 155, name_similarity |-> 0,   desc_similarity |-> 0],
    [fts |-> FALSE, rank |-> 0,   name_similarity |-> 100, desc_similarity |-> 40] }

\* a % b of pg_trgm: the similarity exceeds pg_trgm.similarity_threshold (0.3).
TrgmMatch(sim) == sim > 30

\* The WHERE clause of countSql (lines 111-116), sg being the engine's
\* signals for the row.
CountPredicate(r, sg, q) ==
  \/ sg.fts
  \/ TrgmMatch(sg.name_similarity)
  \/ TrgmMatch(sg.desc_similarity)
  \/ StartsWithNoCase(r.food_name, q)
  \/ StartsWithNoCase(r.description, q)
  \/ /\ isPhrase(q)
     /\ \/ EqualsNoCase(r.food_name, phrase(q))
        \/ EqualsNoCase(r.description, phrase(q))

\* The WHERE clause of mainSql (lines 60-68): the same, OR $2::text IS NULL,
\* $2 being isPhrase ? phrase : null.
MainPredicate(r, sg, q) ==
  \/ CountPredicate(r, sg, q)
  \/ phrase(q) = NoPhrase

\* The select list of mainSql.
MainRow(r, sg, q) ==
  [id |-> r.id, food_name |-> r.food_name, description |-> r.description,
   image_url |-> r.image_url, rank |-> sg.rank,
   name_similarity |-> sg.name_similarity,
   desc_similarity |-> sg.desc_similarity,
   exact_name_match |-> (r.food_name = q),
   ilike_name_match |-> EqualsNoCase(r.food_name, q),
   ilike_desc_match |-> EqualsNoCase(r.description, q)]

\* The select list of wordSql.
WordRow(r) ==
  [id |-> r.id, food_name |-> r.food_name, description |-> r.description,
   image_url |-> r.image_url]

\* The select list of fallbackSql.
FallbackRow(r, sg, q) ==
  [id |-> r.id, food_name |-> r.food_name, description |-> r.description,
   image_url |-> r.image_url,
   name_similarity |-> sg.name_similarity,
   desc_similarity |-> sg.desc_similarity,
   name_lev |-> Levenshtein(Lower(r.food_name), Lower(q)),
   desc_lev |-> Levenshtein(Lower(r.description), Lower(q))]

Bit(b) == IF b THEN 1 ELSE 0

\* ORDER BY of the outer select of mainSql, every key descending.
MainOrderKey(row) ==
  <<Bit(row.exact_name_match), Bit(row.ilike_name_match),
    Bit(row.ilike_desc_match), row.rank, row.name_similarity,
    row.desc_similarity>>

\* ORDER BY of fallbackSql: similarities descending, distances ascending.
FallbackOrderKey(row) ==
  <<row.name_similarity, row.desc_similarity, 0 - row.name_lev, 0 - row.desc_lev>>

\* No ORDER BY (wordSql): the engine may return the rows in any order.
NoOrderKey(row) == <<>>

\* Tuple a sorts before or with tuple b under ORDER BY ... DESC.
RECURSIVE KeyNotAfter(_, _)
KeyNotAfter(a, b) ==
  IF a = <<>> THEN TRUE
  ELSE IF Head(a) # Head(b) THEN Head(a) > Head(b)
  ELSE KeyNotAfter(Tail(a), Tail(b))

\* The ORDER BY key of a row of the named statement.
OrderKey(statement, row) ==
  IF statement = "mainSql" THEN MainOrderKey(row)
  ELSE IF statement = "fallbackSql" THEN FallbackOrderKey(row)
  ELSE NoOrderKey(row)

\* The orders in which the engine may return the rows of S under the ORDER BY
\* of the named statement: rows with equal keys come in any order.
Orderings(S, statement) ==
  { p \in [1..Cardinality(S) -> S] :
      /\ \A i, j \in 1..Cardinality(S) : i # j => p[i] # p[j]
      /\ \A i \in 1..(Cardinality(S) - 1) : KeyNotAfter(OrderKey(statement, p[i]), OrderKey(statement, p[i + 1])) }

\* SELECT DISTINCT ON (food_name, description): one row of S for each pair.
\* The ORDER BY of the statement ranks rows of one pair equally (its keys are
\* computed from the pair and the query), so the engine may keep any of them.
DistinctOn(S) ==
  { T \in SUBSET S :
      /\ \A r \in S : \E t \in T : PairOf(t) = PairOf(r)
      /\ \A t, u \in T : PairOf(t) = PairOf(u) => t = u }

\* LIMIT limit OFFSET offset
LimitOffset(rows, limit, offset) ==
  SubSeq(rows, offset + 1, Min(Len(rows), offset + limit))

\* The result sets pool.query(mainSql, [q, phrase, limit, offset]) may give.
mainSql(table, sg, q, limit, offset) ==
  LET matched == {r \in table : MainPredicate(r, sg[PairOf(r)], q)}
  IN  UNION { { LimitOffset(p, limit, offset) :
                  p \in Orderings({MainRow(r, sg[PairOf(r)], q) : r \in T},
                                  "mainSql") } :
              T \in DistinctOn(matched) }

\* WHERE food_name ILIKE $i OR description ILIKE $i for some word i, each
\* parameter being %word%.
WordPredicate(r, words) ==
  \E i \in 1..Len(words) :
    \/ ContainsNoCase(r.food_name, words[i])
    \/ ContainsNoCase(r.description, words[i])

\* The result sets pool.query(wordSql, wordParams) may give.
wordSql(table, words, limit, offset) ==
  LET matched == {r \in table : WordPredicate(r, words)}
  IN  UNION { { LimitOffset(p, limit, offset) :
                  p \in Orderings({WordRow(r) : r \in T}, "wordSql") } :
              T \in DistinctOn(matched) }

\* The result sets pool.query(fallbackSql, [q, limit, offset]) may give.
fallbackSql(table, sg, q, limit, offset) ==
  { LimitOffset(p, limit, offset) :
      p \in Orderings({FallbackRow(r, sg[PairOf(r)], q) : r \in table},
                      "fallbackSql") }

\* SELECT COUNT(*) ... of countSql.
countSql(table, sg, q) ==
  Cardinality({r \in table : CountPredicate(r, sg[PairOf(r)], q)})

\* ---------------------------------------------------------------- endpoint

VARIABLES
  table,     \* the rows of food_nutrition
  sig,       \* the engine's signals for each (food_name, description)
  cache,     \* the cache collaborator: key -> stored response
  pc,        \* for each handler, the await at which it stands
  req,       \* for each handler, its request: the token, q, the limit and
             \* offset parameters as sent, and the effective limit and offset
  rows,      \* for each handler, let rows
  total,     \* for each handler, const total (the count of countSql)
  response,  \* for each handler, const response, built before setCache is
             \* called
  resp,      \* for each handler, what was sent: status and body
  calls,     \* for each handler, the collaborator calls that have answered
             \* it, in order: which, whether it resolved, how many rows
  nreq,      \* requests received so far
  probe      \* the last application of a text function on its own

vars == <<table, sig, cache, pc, req, rows, total, response, resp, calls,
          nreq, probe>>

NoResp == [status |-> 0]
NoPage == [count |-> 0]
NoReq == [token |-> "absent", q |-> NoQ, rawLimit |-> NoParam,
          rawOffset |-> NoParam, limit |-> 0, offset |-> 0]
NoProbe == [op |-> "none"]
EmptyMap == [k \in {} |-> NoPage]

\* The texts of at most n characters over alphabet.
Texts(alphabet, n) == UNION {[1..k -> alphabet] : k \in 0..n}

\* The characters between the first and the last character of s that is not
\* whitespace, both included.
SpanLength(s) ==
  LET solid == {i \in 1..Len(s) : ~IsSpace(s[i])}
  IN  IF solid = {} THEN 0
      ELSE (CHOOSE i \in solid : \A j \in solid : j <= i)
             - (CHOOSE i \in solid : \A j \in solid : i <= j) + 1

\* Every query text of at most MaxQLen characters that spans fewer than two.
ShortQueries ==
  {NoQ} \cup {s \in Texts({"a", Quote, Space, Newline}, MaxQLen) : SpanLength(s) < 2}

\* The parameters of the requests of Spec.
ReqTokens == {"invalid", "valid"}
ReqQueries == {NoQ, <<"a", Space, "b">>}
ReqLimits == {NoParam, <<"x">>, <<"0">>, <<"-", "3">>, <<"9", "9">>}
ReqOffsets == {NoParam, <<"x">>, <<"-", "1">>}

\* The parameters of the requests of SpecPipeline.
PipelineQueries ==
  ShortQueries \cup
  { <<"a", "b">>,
    <<"A", "B">>,
    <<Space, "a", "b">>,
    <<"a", "b", Space>>,
    <<"a", Space, "b">>,
    <<"b", "b">>,
    <<Quote, Quote>>,
    <<Quote, "a", "b", Quote>>,
    <<Quote, "b", Quote>>,
    <<Quote, "a", Space, "b", Quote>>,
    <<Quote, "a", "b", "b", "a", Quote>>,
    <<"a", "b", "b", "a", "a", "b">>,
    <<"b", "b", "b", "b", "b", "b", "b", "b">> }
PipelineTokens == {"absent", "valid"}
PipelineLimits ==
  {NoParam, <<"0">>, <<"1">>, <<"2">>, <<"-", "3">>, <<"9", "9">>, <<"x">>}
PipelineOffsets == {NoParam, <<"1">>, <<"2">>, <<"3">>, <<"-", "1">>, <<"x">>}

Put(map, k, v) == [x \in DOMAIN map \cup {k} |-> IF x = k THEN v ELSE map[x]]
Drop(map, k) == [x \in DOMAIN map \ {k} |-> map[x]]

\* The invocations of the handler that are in progress at once: each request
\* runs the handler with locals of its own, and the event loop runs one of
\* them at a time, from one await to the next.
Handlers == {"A", "B"}

\* The same value for every handler.
Each(v) == [h \in Handlers |-> v]

\* The handler a new request is given: the first that runs no request.
FreeHandler == IF pc["A"] = "idle" THEN "A" ELSE "B"

\* const cacheKey of the request of handler h
Key(h) == cacheKey(req[h].q, req[h].limit, req[h].offset)

Call(op, ok, n) == [op |-> op, ok |-> ok, rows |-> n]

\* What a collaborator rejects with: an Error object, which has a message
\* (possibly empty) and may carry a status.  The collaborators are outside
\* the handler, which passes on whatever they reject with.
Errors ==
  { [message |-> "boom"],
    [message |-> ""],
    [message |-> "db down", status |-> 503] }

\* A call that rejected with err.
Refusal(op, err) == [op |-> op, ok |-> FALSE, rows |-> 0, err |-> err]

\* next(err): the error handler of the application answers
\* res.status(err.status || 500).json({ error: err.message || 'Internal Server Error' })
Failed(err) ==
  [status |-> IF Has(err, "status") /\ err.status # 0 THEN err.status ELSE 500,
   error  |-> IF err.message # "" THEN err.message ELSE "Internal Server Error"]

\* authMiddleware runs before the handler, on the bearer token of the
\* request, which is absent, invalid or valid: it lets a request with a valid
\* token through to the handler and answers every other with 401.
authMiddleware(token) == token = "valid"

Unauthorized == [status |-> 401]

\* No request is in progress.
NoRequests ==
  /\ pc = Each("idle")
  /\ req = Each(NoReq)
  /\ rows = Each(<<>>)
  /\ total = Each(0)
  /\ response = Each(NoPage)
  /\ resp = Each(NoResp)
  /\ calls = Each(<<>>)
  /\ nreq = 0

Init ==
  /\ table \in Catalogs
  /\ sig \in [{PairOf(r) : r \in table} -> Signals]
  /\ cache = EmptyMap
  /\ NoRequests
  /\ probe = NoProbe

\* The signals of the behaviours of Spec: a pair that matches nothing and one
\* that matches by text search.
CacheSignals == {s \in Signals : s.rank \in {0, 155} /\ s.name_similarity = 0}

\* The tables of the behaviours of Spec: the empty one and one whose two rows
\* share their name and description.
CacheCatalogs == {{}, {Row1, Row2}}

InitCache ==
  /\ table \in CacheCatalogs
  /\ sig \in [{PairOf(r) : r \in table} -> CacheSignals]
  /\ cache = EmptyMap
  /\ NoRequests
  /\ probe = NoProbe

\* Lines 20-30: handler h is given a request; authMiddleware lets it through
\* or answers 401, then the parameters are read and the query is validated.
Arrive(h, token, q, rawLimit, rawOffset) ==
  /\ req' = [req EXCEPT ![h] =
               [token |-> token, q |-> q, rawLimit |-> rawLimit,
                rawOffset |-> rawOffset,
                limit |-> EffLimit(rawLimit), offset |-> EffOffset(rawOffset)]]
  /\ rows' = [rows EXCEPT ![h] = <<>>]
  /\ total' = [total EXCEPT ![h] = 0]
  /\ response' = [response EXCEPT ![h] = NoPage]
  /\ calls' = [calls EXCEPT ![h] = <<>>]
  /\ IF ~authMiddleware(token)
     THEN /\ resp' = [resp EXCEPT ![h] = Unauthorized]
          /\ pc' = [pc EXCEPT ![h] = "done"]
     ELSE IF ValidationError(q) # ""
     THEN /\ resp' = [resp EXCEPT ![h] = [status |-> 400, error |-> ValidationError(q)]]
          /\ pc' = [pc EXCEPT ![h] = "done"]
     ELSE /\ resp' = [resp EXCEPT ![h] = NoResp]
          /\ pc' = [pc EXCEPT ![h] = "getCache"]
  /\ UNCHANGED <<table, sig, cache, probe>>

\* A request arrives, whatever the cache holds and whatever other request is
\* in progress.
Receive ==
  /\ \E h \in Handlers : pc[h] = "idle"
  /\ nreq < MaxRequests
  /\ nreq' = nreq + 1
  /\ \E token \in ReqTokens, q \in ReqQueries, rl \in ReqLimits, ro \in ReqOffsets :
       Arrive(FreeHandler, token, q, rl, ro)

\* A request arrives after every other has been answered and every entry of
\* the cache has expired.
ReceiveSpaced ==
  /\ pc = Each("idle")
  /\ cache = EmptyMap
  /\ nreq' = nreq
  /\ \E token \in PipelineTokens, q \in PipelineQueries,
        rl \in PipelineLimits, ro \in PipelineOffsets :
       Arrive(FreeHandler, token, q, rl, ro)

\* res.json({ ...cached, cached: true })
WithCached(page) ==
  [f \in DOMAIN page \cup {"cached"} |-> IF f = "cached" THEN TRUE ELSE page[f]]

\* Lines 37-40: await getCache(cacheKey).  The collaborator returns the stored
\* value, returns nothing, or rejects.
GetCacheHit(h) ==
  /\ pc[h] = "getCache"
  /\ Key(h) \in DOMAIN cache
  /\ calls' = [calls EXCEPT ![h] = Append(@, Call("getCache", TRUE, 1))]
  /\ resp' = [resp EXCEPT ![h] = [status |-> 200, body |-> WithCached(cache[Key(h)])]]
  /\ pc' = [pc EXCEPT ![h] = "done"]
  /\ UNCHANGED <<table, sig, cache, req, rows, total, response, nreq, probe>>

GetCacheMiss(h) ==
  /\ pc[h] = "getCache"
  /\ Key(h) \notin DOMAIN cache
  /\ calls' = [calls EXCEPT ![h] = Append(@, Call("getCache", TRUE, 0))]
  /\ pc' = [pc EXCEPT ![h] = "mainSql"]
  /\ UNCHANGED <<table, sig, cache, req, rows, total, response, resp, nreq, probe>>

\* A rejected await inside the try block: the catch block calls next(err).
Rejected(h, name) ==
  /\ \E err \in Errors :
       /\ calls' = [calls EXCEPT ![h] = Append(@, Refusal(name, err))]
       /\ resp' = [resp EXCEPT ![h] = Failed(err)]
  /\ pc' = [pc EXCEPT ![h] = "done"]
  /\ UNCHANGED <<table, sig, cache, req, rows, total, response, nreq, probe>>

GetCacheRejects(h) ==
  /\ pc[h] = "getCache"
  /\ Rejected(h, "getCache")

\* q.split(/\s+/).length > 1
HasSeveralPieces(q) == Len(SplitWhitespace(q)) > 1

\* A variant of the step after strategy 1 that goes on to the word strategy
\* for every query of several pieces, whatever strategy 1 returned.
AfterMain_AlwaysWords(rs, q) ==
  IF HasSeveralPieces(q) THEN "wordSql"
  ELSE IF Len(rs) = 0 THEN "fallbackSql" ELSE "countSql"

\* Where the handler goes once strategy 1 has answered rs (lines 80 and 94).
AfterMain(rs, q) ==
  IF rs = <<>> /\ HasSeveralPieces(q) THEN "wordSql"
  ELSE IF rs = <<>> THEN "fallbackSql"
  ELSE "countSql"

\* Where the handler goes once strategy 2 has answered rs (line 94).
AfterWord(rs) == IF rs = <<>> THEN "fallbackSql" ELSE "countSql"

\* Lines 76-80: strategy 1.
MainQuery(h) ==
  /\ pc[h] = "mainSql"
  /\ \/ \E rs \in mainSql(table, sig, req[h].q, req[h].limit, req[h].offset) :
          /\ rows' = [rows EXCEPT ![h] = rs]
          /\ calls' = [calls EXCEPT ![h] = Append(@, Call("mainSql", TRUE, Len(rs)))]
          /\ pc' = [pc EXCEPT ![h] = AfterMain(rs, req[h].q)]
          /\ UNCHANGED <<table, sig, cache, req, total, response, resp, nreq, probe>>
     \/ Rejected(h, "mainSql")

\* Lines 81-91: strategy 2.
WordQuery(h) ==
  /\ pc[h] = "wordSql"
  /\ \/ \E rs \in wordSql(table, FilterNonEmpty(SplitWhitespace(req[h].q)),
                         req[h].limit, req[h].offset) :
          /\ rows' = [rows EXCEPT ![h] = rs]
          /\ calls' = [calls EXCEPT ![h] = Append(@, Call("wordSql", TRUE, Len(rs)))]
          /\ pc' = [pc EXCEPT ![h] = AfterWord(rs)]
          /\ UNCHANGED <<table, sig, cache, req, total, response, resp, nreq, probe>>
     \/ Rejected(h, "wordSql")

\* Lines 94-106: strategy 3.
FallbackQuery(h) ==
  /\ pc[h] = "fallbackSql"
  /\ \/ \E rs \in fallbackSql(table, sig, req[h].q, req[h].limit, req[h].offset) :
          /\ rows' = [rows EXCEPT ![h] = rs]
          /\ calls' = [calls EXCEPT ![h] = Append(@, Call("fallbackSql", TRUE, Len(rs)))]
          /\ pc' = [pc EXCEPT ![h] = "countSql"]
          /\ UNCHANGED <<table, sig, cache, req, total, response, resp, nreq, probe>>
     \/ Rejected(h, "fallbackSql")

\* A variant of the response whose total is the page size asked for.
Response_TotalIsLimit(sorted, limit, offset) ==
  [total |-> limit, count |-> Len(sorted), limit |-> limit,
   offset |-> offset, results |-> sorted]

\* Lines 158-164: const response = { total, count, limit, offset, results }
Response(sorted, limit, offset) ==
  [total |-> Len(sorted), count |-> Len(sorted), limit |-> limit,
   offset |-> offset, results |-> sorted]

\* A variant of the emptiness test of line 155 that never reports emptiness.
NoneSurvived_Never(sorted) == FALSE

\* if (sorted.length === 0)
NoneSurvived(sorted) == Len(sorted) = 0

\* Lines 109-165: the count is awaited, then the rows are highlighted, scored,
\* filtered, sorted and cut without a further await; an empty outcome is
\* answered 404, otherwise the response is built and setCache is called.
CountQuery(h) ==
  /\ pc[h] = "countSql"
  /\ \/ LET sorted == ScoreAndShape(rows[h], req[h].q, req[h].limit)
        IN  /\ total' = [total EXCEPT ![h] = countSql(table, sig, req[h].q)]
            /\ calls' = [calls EXCEPT ![h] = Append(@, Call("countSql", TRUE, 1))]
            /\ IF NoneSurvived(sorted)
               THEN /\ resp' = [resp EXCEPT ![h] =
                                  [status |-> 404,
                                   error |-> "No highly relevant results found for your query."]]
                    /\ response' = response
                    /\ pc' = [pc EXCEPT ![h] = "done"]
               ELSE /\ response' = [response EXCEPT ![h] =
                                      Response(sorted, req[h].limit, req[h].offset)]
                    /\ resp' = resp
                    /\ pc' = [pc EXCEPT ![h] = "setCache"]
            /\ UNCHANGED <<table, sig, cache, req, rows, nreq, probe>>
     \/ Rejected(h, "countSql")

\* Line 165, inside setCache(cacheKey, response, 300000): the store takes the
\* entry; the promise the handler awaits is still pending.
SetCacheStores(h) ==
  /\ pc[h] = "setCache"
  /\ cache' = Put(cache, Key(h), response[h])
  /\ pc' = [pc EXCEPT ![h] = "setCacheStored"]
  /\ UNCHANGED <<table, sig, req, rows, total, response, resp, calls, nreq, probe>>

\* Lines 165-166: the promise of setCache resolves and res.json(response)
\* sends the page.
SetCacheResolves(h) ==
  /\ pc[h] = "setCacheStored"
  /\ calls' = [calls EXCEPT ![h] = Append(@, Call("setCache", TRUE, 0))]
  /\ resp' = [resp EXCEPT ![h] = [status |-> 200, body |-> response[h]]]
  /\ pc' = [pc EXCEPT ![h] = "done"]
  /\ UNCHANGED <<table, sig, cache, req, rows, total, response, nreq, probe>>

\* The promise of setCache rejects, before the store has taken the entry or
\* after (the write went through and its acknowledgement did not).
SetCacheRejects(h) ==
  /\ pc[h] \in {"setCache", "setCacheStored"}
  /\ Rejected(h, "setCache")

\* The response has been sent and the handler has returned: nothing of the
\* request outlives it but what it wrote to the cache.
Finish(h) ==
  /\ pc[h] = "done"
  /\ pc' = [pc EXCEPT ![h] = "idle"]
  /\ req' = [req EXCEPT ![h] = NoReq]
  /\ rows' = [rows EXCEPT ![h] = <<>>]
  /\ total' = [total EXCEPT ![h] = 0]
  /\ response' = [response EXCEPT ![h] = NoPage]
  /\ resp' = [resp EXCEPT ![h] = NoResp]
  /\ calls' = [calls EXCEPT ![h] = <<>>]
  /\ UNCHANGED <<table, sig, cache, nreq, probe>>

\* The expiry given to setCache (300000 ms) has passed for an entry.
Expire ==
  /\ \E k \in DOMAIN cache : cache' = Drop(cache, k)
  /\ UNCHANGED <<table, sig, pc, req, rows, total, response, resp, calls, nreq, probe>>

\* One turn of the event loop: a request arrives, or a call one handler
\* awaits answers and that handler runs to its next await.
Step(h) ==
  \/ GetCacheHit(h)
  \/ GetCacheMiss(h)
  \/ GetCacheRejects(h)
  \/ MainQuery(h)
  \/ WordQuery(h)
  \/ FallbackQuery(h)
  \/ CountQuery(h)
  \/ SetCacheStores(h)
  \/ SetCacheResolves(h)
  \/ SetCacheRejects(h)
  \/ Finish(h)

Next ==
  \/ Receive
  \/ \E h \in Handlers : Step(h)
  \/ Expire

\* The endpoint under a bounded number of requests, two at most in progress
\* at once.
Spec == InitCache /\ [][Next]_vars

\* One turn of the event loop between spaced requests: the cache is empty
\* when the lookup of l.37 is answered, so the lookup misses or rejects.
StepSpaced(h) ==
  \/ GetCacheMiss(h)
  \/ GetCacheRejects(h)
  \/ MainQuery(h)
  \/ WordQuery(h)
  \/ FallbackQuery(h)
  \/ CountQuery(h)
  \/ SetCacheStores(h)
  \/ SetCacheResolves(h)
  \/ SetCacheRejects(h)
  \/ Finish(h)

NextPipeline ==
  \/ ReceiveSpaced
  \/ \E h \in Handlers : StepSpaced(h)
  \/ Expire

\* The endpoint under requests that arrive one at a time, each after the
\* answer to the one before and more than the expiry after it.
SpecPipeline == Init /\ [][NextPipeline]_vars

\* ------------------------------------------------------- text-level steps

\* The characters query texts and field texts are drawn from.
QueryAlphabet == {"a", Quote, Space, Newline}
FieldAlphabet == {"a", "A", "."}
KeyAlphabet == {":", "1", Space}

\* A signal of a row, in hundredths, or none: the set of its values.
SimilarityOptions == {{}, {0}, {5}, {15}, {100}}
RankOptions == {{}, {0}, {155}, {160}}
LevOptions == {{}, {0}, {3}, {10}}

\* A retrieved row with the given signals.
SignalRow(sim, rank, lev) ==
  [f \in {"id"} \cup (IF sim = {} THEN {} ELSE {"name_similarity"})
              \cup (IF rank = {} THEN {} ELSE {"rank"})
              \cup (IF lev = {} THEN {} ELSE {"name_lev"}) |->
     IF f = "id" THEN 1
     ELSE IF f = "name_similarity" THEN CHOOSE x \in sim : TRUE
     ELSE IF f = "rank" THEN CHOOSE x \in rank : TRUE
     ELSE CHOOSE x \in lev : TRUE]

\* The limit and offset parameters of the two requests whose keys are compared.
KeyLimits == {NoParam, <<"1">>}
KeyOffsets == {<<"1">>, <<"1", "1">>}

\* The text-level steps are given a query on its own, or a query with the
\* name and the description of one row, or the signals of two rows that
\* differ in name similarity only, or the parameters of two requests.
InitText ==
  /\ table = {}
  /\ sig = [p \in {} |-> 0]
  /\ cache = EmptyMap
  /\ NoRequests
  /\ \/ \E q \in Texts(QueryAlphabet, MaxQLen) : probe = [op |-> "query", q |-> q]
     \/ \E q \in Texts(FieldAlphabet, MaxQLen),
           name \in Texts(FieldAlphabet, MaxTextLen),
           desc \in Texts(FieldAlphabet, MaxDescLen) :
          probe = [op |-> "row", q |-> q, food_name |-> name, description |-> desc]
     \/ \E simA \in SimilarityOptions, simB \in SimilarityOptions,
           rank \in RankOptions, lev \in LevOptions :
          probe = [op |-> "signals", simA |-> simA, simB |-> simB,
                   rank |-> rank, lev |-> lev]
     \/ \E q1 \in Texts(KeyAlphabet, MaxQLen), q2 \in Texts(KeyAlphabet, MaxQLen),
           l1 \in KeyLimits, l2 \in KeyLimits, o1 \in KeyOffsets, o2 \in KeyOffsets :
          probe = [op |-> "requests", q1 |-> q1, rawLimit1 |-> l1, rawOffset1 |-> o1,
                   q2 |-> q2, rawLimit2 |-> l2, rawOffset2 |-> o2]

\* Lines 25-30 and 42-44 on their own: an accepted query is examined for the
\* phrase form.
ParseQuery ==
  /\ probe.op = "query"
  /\ ValidationError(probe.q) = ""
  /\ probe' = [op |-> "parse", q |-> probe.q, isPhrase |-> isPhrase(probe.q),
               phrase |-> phrase(probe.q)]
  /\ UNCHANGED <<table, sig, cache, pc, req, rows, total, response, resp, calls, nreq>>

\* Lines 123-127 on their own: one row is given its two highlight fields.
HighlightRow ==
  /\ probe.op = "row"
  /\ probe' = [op |-> "highlight", q |-> probe.q,
               row |-> Highlighted([id |-> 1, food_name |-> probe.food_name,
                                    description |-> probe.description], probe.q)]
  /\ UNCHANGED <<table, sig, cache, pc, req, rows, total, response, resp, calls, nreq>>

\* Lines 134-143 on their own: two rows are given their scores.
ScoreRows ==
  /\ probe.op = "signals"
  /\ probe' = [op |-> "scored",
               a |-> Scored(SignalRow(probe.simA, probe.rank, probe.lev)),
               b |-> Scored(SignalRow(probe.simB, probe.rank, probe.lev))]
  /\ UNCHANGED <<table, sig, cache, pc, req, rows, total, response, resp, calls, nreq>>

\* Lines 21-33 on their own: two accepted requests are given their cache keys.
KeyRequests ==
  /\ probe.op = "requests"
  /\ ValidationError(probe.q1) = ""
  /\ ValidationError(probe.q2) = ""
  /\ probe' = [op |-> "keys",
               q1 |-> probe.q1, limit1 |-> EffLimit(probe.rawLimit1),
               offset1 |-> EffOffset(probe.rawOffset1),
               key1 |-> cacheKey(probe.q1, EffLimit(probe.rawLimit1),
                                 EffOffset(probe.rawOffset1)),
               q2 |-> probe.q2, limit2 |-> EffLimit(probe.rawLimit2),
               offset2 |-> EffOffset(probe.rawOffset2),
               key2 |-> cacheKey(probe.q2, EffLimit(probe.rawLimit2),
                                 EffOffset(probe.rawOffset2))]
  /\ UNCHANGED <<table, sig, cache, pc, req, rows, total, response, resp, calls, nreq>>

NextText ==
  \/ ParseQuery
  \/ HighlightRow
  \/ ScoreRows
  \/ KeyRequests

\* The text functions of the handler applied to every short text.
SpecText == InitText /\ [][NextText]_vars

\* ------------------------------------------------------------------ claims

Strategies == {"mainSql", "wordSql", "fallbackSql"}

OpsOf(cs) == [i \in 1..Len(cs) |-> cs[i].op]

\* Handler h has answered its request with a page it computed.
AnsweredFromMiss(h) ==
  pc[h] = "done" /\ resp[h].status = 200 /\ ~Has(resp[h].body, "cached")

\* Handler h has answered its request with a page read from the cache.
AnsweredFromCache(h) ==
  pc[h] = "done" /\ resp[h].status = 200 /\ Has(resp[h].body, "cached")

StorageOps == Strategies \cup {"countSql"}

\* C1: a request that reaches the handler with a query that is absent, is not
\* a string, or spans fewer than two characters between its first and last
\* non-whitespace character is answered 400 at once, before any collaborator
\* is called, whatever its limit and offset, whatever the table and the cache
\* hold and whatever other request is in progress.
C1_ShortQueryIsInvalid ==
  \A h \in Handlers :
    (/\ pc[h] # "idle"
     /\ authMiddleware(req[h].token)
     /\ (req[h].q = NoQ \/ SpanLength(req[h].q) < 2))
      => (pc[h] = "done" /\ resp[h].status = 400 /\ calls[h] = <<>>)

C1_Witness ==
  \E h \in Handlers :
    /\ pc[h] = "done"
    /\ req[h].token = "valid"
    /\ req[h].q = <<Space, "a", Newline>>
    /\ req[h].rawLimit = <<"9", "9">>
    /\ req[h].rawOffset = <<"x">>
    /\ table = {Row1, Row2, Row3}
    /\ resp[h].status = 400

\* C2: every response sent with status 200, computed or read from the cache,
\* carries a limit within 1..50 and an offset of at least 0.
C2_LimitOffsetInRange ==
  \A h \in Handlers :
    resp[h].status = 200
      => (resp[h].body.limit \in 1..50 /\ resp[h].body.offset \in Nat)

\* A request with a non-numeric limit and a non-numeric offset is answered
\* from the cache with the page that the other request, given no limit and a
\* negative offset and still unanswered, has just stored.
C2_Witness ==
  /\ AnsweredFromCache("B")
  /\ pc["A"] = "setCacheStored"
  /\ req["B"].rawLimit = <<"x">>
  /\ req["B"].rawOffset = <<"x">>
  /\ req["A"].rawLimit = NoParam
  /\ req["A"].rawOffset = <<"-", "1">>
  /\ resp["B"].body.limit = DefaultLimit
  /\ resp["B"].body.offset = 0

\* C3: within a request strategy 1 is the first storage request; strategy 2
\* is issued only right after strategy 1 resolved with zero rows; strategy 3
\* is issued only right after strategy 1 or 2 resolved with zero rows, every
\* strategy before it having given zero rows.
C3_CascadeOrder ==
  \A h \in Handlers :
    \A i \in 1..Len(calls[h]) :
      /\ calls[h][i].op = "mainSql"
           => \A j \in 1..(i - 1) : calls[h][j].op = "getCache"
      /\ calls[h][i].op = "wordSql"
           => /\ i > 1
              /\ calls[h][i - 1] = Call("mainSql", TRUE, 0)
      /\ calls[h][i].op = "fallbackSql"
           => /\ i > 1
              /\ calls[h][i - 1] \in {Call("mainSql", TRUE, 0), Call("wordSql", TRUE, 0)}
              /\ \A j \in 1..(i - 1) :
                   calls[h][j].op \in Strategies => calls[h][j].rows = 0
      /\ (calls[h][i].op \in Strategies /\ calls[h][i].rows > 0)
           => \A j \in (i + 1)..Len(calls[h]) : calls[h][j].op \notin Strategies

C3_Witness ==
  \E h \in Handlers :
    /\ AnsweredFromMiss(h)
    /\ OpsOf(calls[h]) =
         <<"getCache", "mainSql", "wordSql", "fallbackSql", "countSql", "setCache">>
    /\ calls[h][4].rows > 0

\* C4: when the cache read of a request is answered while the cache holds an
\* entry under its key (stored by an earlier request and not expired), the
\* request is answered 200 with the results of that entry, marked cached, and
\* has issued no retrieval or count request.
C4_SecondRequestServedFromCache ==
  [][\A h \in Handlers :
       (pc[h] = "getCache" /\ Key(h) \in DOMAIN cache /\ pc'[h] # "getCache")
         => /\ pc'[h] = "done"
            /\ resp'[h].status = 200
            /\ Has(resp'[h].body, "cached")
            /\ resp'[h].body.cached = TRUE
            /\ resp'[h].body.results = cache[Key(h)].results
            /\ \A i \in 1..Len(calls'[h]) : calls'[h][i].op \notin StorageOps]_vars

\* C5: a rejected cache call never ends the request with an error: after a
\* rejected getCache the handler goes on to strategy 1 as on a miss, after a
\* rejected setCache the response that was built is sent with status 200.
C5_CacheFailureNeverSurfaces ==
  \A h \in Handlers :
    pc[h] = "done" =>
      \A i \in 1..Len(calls[h]) :
        /\ (calls[h][i].op = "getCache" /\ ~calls[h][i].ok)
             => (i < Len(calls[h]) /\ calls[h][i + 1].op = "mainSql")
        /\ (calls[h][i].op = "setCache" /\ ~calls[h][i].ok)
             => resp[h] = [status |-> 200, body |-> response[h]]

\* C6: no page sent with status 200 holds two results with the same
\* (food_name, description).
C6_NoDuplicatePairs ==
  \A h \in Handlers :
    resp[h].status = 200 =>
      \A i, j \in 1..Len(resp[h].body.results) :
        i # j => PairOf(resp[h].body.results[i]) # PairOf(resp[h].body.results[j])

\* The acceptance rule as the specification words it: composite score above
\* 0.05, or name similarity above the threshold, or an edit distance that is
\* present and at most the threshold; thresholds (0.10, 5) for a query of fewer
\* than 6 characters and (0.20, 8) otherwise.  The composite score is the
\* float (name_similarity x 2) + rank - (d x 0.15), d being the edit distance
\* or 10, evaluated in that order on floats.
SimilarityOf(row) == IF Has(row, "name_similarity") THEN row.name_similarity ELSE 0

RankOf(row) == IF Has(row, "rank") THEN row.rank ELSE 0

DistanceOf(row) == IF Has(row, "name_lev") THEN row.name_lev ELSE 10

\* The composite score in exact arithmetic, in hundredths.
ExactScore(row) == 2 * SimilarityOf(row) + RankOf(row) - 15 * DistanceOf(row)

CompositeScore(row) ==
  DoubleDifference(
    DoubleSum(DoubleTimesInt(2, Double(SimilarityOf(row))), Double(RankOf(row))),
    DoubleTimesInt(DistanceOf(row), Double(15)))

KeptBySpec(row, q) ==
  LET short == Len(q) < 6
  IN  \/ DoubleGreater(CompositeScore(row), Double(5))
      \/ Has(row, "name_similarity")
           /\ row.name_similarity > (IF short THEN 10 ELSE 20)
      \/ Has(row, "name_lev") /\ row.name_lev <= (IF short THEN 5 ELSE 8)

\* The count request of handler h has resolved, so its rows have been through
\* the scorer.
Scorer(h) ==
  \E i \in 1..Len(calls[h]) : calls[h][i] = Call("countSql", TRUE, 1)

KeptIds(h) ==
  IF Has(response[h], "results")
  THEN {response[h].results[i].id : i \in 1..Len(response[h].results)}
  ELSE {}

\* C7: once the scorer has run, a retrieved row is among the results exactly
\* when the acceptance rule of the specification holds of it.
C7_KeptIffAccepted ==
  \A h \in Handlers :
    Scorer(h) =>
      \A i \in 1..Len(rows[h]) :
        (rows[h][i].id \in KeptIds(h)) <=> KeptBySpec(rows[h][i], req[h].q)

C7_Witness ==
  \E h \in Handlers :
    /\ AnsweredFromMiss(h)
    /\ Len(req[h].q) >= 6
    /\ \E i \in 1..Len(resp[h].body.results) :
         /\ resp[h].body.results[i].name_similarity = 25
         /\ resp[h].body.results[i].smart_score = [h |-> 0 - 100, e |-> 0]

\* C8: a computed page sent with status 200 holds at least one result, and
\* when the scorer has run and no retrieved row passes the acceptance rule the
\* request has been answered 404.
C8_NoEmptySuccess ==
  \A h \in Handlers :
    /\ AnsweredFromMiss(h) => Len(resp[h].body.results) >= 1
    /\ (Scorer(h) /\ \A i \in 1..Len(rows[h]) : ~KeptBySpec(rows[h][i], req[h].q))
         => (pc[h] = "done" /\ resp[h].status = 404)

C8_Witness ==
  \E h \in Handlers :
    /\ pc[h] = "done"
    /\ resp[h].status = 404
    /\ OpsOf(calls[h]) = <<"getCache", "mainSql", "fallbackSql", "countSql">>
    /\ calls[h][3].rows > 0

\* The part of q between its first and its last character that is not
\* whitespace.
SpanOf(q) ==
  LET solid == {i \in 1..Len(q) : ~IsSpace(q[i])}
  IN  IF solid = {} THEN <<>>
      ELSE SubSeq(q, CHOOSE i \in solid : \A j \in solid : i <= j,
                     CHOOSE i \in solid : \A j \in solid : j <= i)

QuotedSpan(q) ==
  /\ Len(SpanOf(q)) >= 2
  /\ SpanOf(q)[1] = Quote
  /\ SpanOf(q)[Len(SpanOf(q))] = Quote

InnerOfSpan(q) == [i \in 1..(Len(SpanOf(q)) - 2) |-> SpanOf(q)[i + 1]]

\* C9 as stated: is_phrase holds exactly when the trimmed query starts with a
\* double quote, ends with one and has at least one character between them,
\* and then phrase_body is the text between the quotes.
C9_PhraseNeedsBody ==
  probe.op = "parse" =>
    /\ probe.isPhrase <=> (QuotedSpan(probe.q) /\ Len(SpanOf(probe.q)) >= 3)
    /\ probe.isPhrase => probe.phrase = InnerOfSpan(probe.q)

\* C9 as amended: is_phrase holds exactly when the trimmed query starts with a
\* double quote, ends with another one and has no line terminator between
\* them, the text between them possibly empty; then phrase_body is that text.
C9_PhraseDetection ==
  probe.op = "parse" =>
    /\ probe.isPhrase <=>
         /\ QuotedSpan(probe.q)
         /\ \A i \in 1..Len(InnerOfSpan(probe.q)) : InnerOfSpan(probe.q)[i] # Newline
    /\ probe.isPhrase => probe.phrase = InnerOfSpan(probe.q)
    /\ ~probe.isPhrase => probe.phrase = NoPhrase

C9_Witness ==
  /\ probe.op = "parse"
  /\ probe.q = <<Space, Quote, Quote>>
  /\ probe.isPhrase
  /\ probe.phrase = <<>>

Marks == {MarkOpen, MarkClose}

\* The highlight field without its markers.
Unmarked(out) == SelectSeq(out, LAMBDA c : c \notin Marks)

\* The positions of the field text at which a marked stretch of out begins.
MarkedAt(out) ==
  { Cardinality({k \in 1..(j - 1) : out[k] \notin Marks}) + 1 :
      j \in {j \in 1..Len(out) : out[j] = MarkOpen} }

\* Every opening marker of out is closed after exactly n characters, and
\* every closing marker closes one.
WellMarked(out, n) ==
  \A j \in 1..Len(out) :
    /\ out[j] = MarkOpen
         => /\ j + n + 1 <= Len(out)
            /\ out[j + n + 1] = MarkClose
            /\ \A k \in 1..n : out[j + k] \notin Marks
    /\ out[j] = MarkClose
         => (j - n - 1 >= 1 /\ out[j - n - 1] = MarkOpen)

\* The positions at which the query occurs in the text, letters compared
\* without case and every other character literally.
Occurrences(text, query) ==
  { i \in 1..(Len(text) - Len(query) + 1) :
      \A k \in 1..Len(query) : LowerChar(text[i + k - 1]) = LowerChar(query[k]) }

\* Every occurrence is wrapped, nothing else is, and the text is unchanged.
AllWrapped(text, query, out) ==
  /\ Unmarked(out) = text
  /\ WellMarked(out, Len(query))
  /\ MarkedAt(out) = Occurrences(text, query)

\* The occurrences are wrapped from the left: a wrapped stretch is an
\* occurrence, and an occurrence is wrapped unless it overlaps one wrapped
\* before it; the text is unchanged.
WrappedFromLeft(text, query, out) ==
  /\ Unmarked(out) = text
  /\ WellMarked(out, Len(query))
  /\ MarkedAt(out) \subseteq Occurrences(text, query)
  /\ \A i \in Occurrences(text, query) :
       \/ i \in MarkedAt(out)
       \/ \E m \in MarkedAt(out) : m < i /\ i < m + Len(query)

\* C10 as stated: in both highlight fields every case-insensitive occurrence
\* of the query, taken literally, is wrapped in markers and nothing else of the
\* field changes.
C10_EveryOccurrenceWrapped ==
  (probe.op = "highlight" /\ probe.q # <<>>) =>
    /\ AllWrapped(probe.row.food_name, probe.q, probe.row.food_name_highlight)
    /\ AllWrapped(probe.row.description, probe.q, probe.row.description_highlight)

\* C10 as amended: in both highlight fields the case-insensitive occurrences
\* of the query, taken literally, are wrapped from the left, an occurrence
\* overlapping one wrapped before it staying unwrapped; nothing else of the
\* field changes, nor any other field of the row.
C10_Highlighting ==
  (probe.op = "highlight" /\ probe.q # <<>>) =>
    /\ WrappedFromLeft(probe.row.food_name, probe.q, probe.row.food_name_highlight)
    /\ WrappedFromLeft(probe.row.description, probe.q, probe.row.description_highlight)
    /\ probe.row.id = 1

C10_Witness ==
  /\ probe.op = "highlight"
  /\ probe.q = <<"a", ".">>
  /\ probe.row.food_name = <<"A", ".", "a">>
  /\ probe.row.food_name_highlight = <<MarkOpen, "A", ".", MarkClose, "a">>
  /\ probe.row.description = <<"a", "a">>
  /\ probe.row.description_highlight = <<"a", "a">>

Tokens(q) ==
  LET starts == {i \in 1..Len(q) : ~IsSpace(q[i]) /\ (i = 1 \/ IsSpace(q[i - 1]))}
  IN  Cardinality(starts)

\* C12: strategy 2 runs only right after strategy 1 returned no rows, and only
\* for a query of at least two non-empty whitespace-separated tokens.
C12_WordStrategyNeedsTwoTokens ==
  \A h \in Handlers :
    \A i \in 1..Len(calls[h]) :
      calls[h][i].op = "wordSql" =>
        /\ i > 1
        /\ calls[h][i - 1] = Call("mainSql", TRUE, 0)
        /\ Tokens(req[h].q) >= 2

\* The matching predicate of strategy 1 as documented: full-text match, or
\* trigram similarity of either field above the default, or either field
\* starting with the query, or, for a phrase, either field matching it.
Matches(r, q) ==
  \/ sig[PairOf(r)].fts
  \/ sig[PairOf(r)].name_similarity > 30
  \/ sig[PairOf(r)].desc_similarity > 30
  \/ Len(r.food_name) >= Len(q)
       /\ Lower(SubSeq(r.food_name, 1, Len(q))) = Lower(q)
  \/ Len(r.description) >= Len(q)
       /\ Lower(SubSeq(r.description, 1, Len(q))) = Lower(q)
  \/ /\ QuotedSpan(q)
     /\ \A i \in 1..Len(InnerOfSpan(q)) : InnerOfSpan(q)[i] # Newline
     /\ \/ Lower(r.food_name) = Lower(InnerOfSpan(q))
        \/ Lower(r.description) = Lower(InnerOfSpan(q))

\* C13: every row strategy 1 returns is a catalog row that satisfies the
\* matching predicate.
C13_MainReturnsOnlyMatches ==
  \A h \in Handlers :
    (/\ calls[h] # <<>>
     /\ calls[h][Len(calls[h])].op = "mainSql"
     /\ calls[h][Len(calls[h])].ok) =>
      \A i \in 1..Len(rows[h]) :
        \E r \in table : r.id = rows[h][i].id /\ Matches(r, req[h].q)

\* The limit and the offset of the specification: the integer sent, clamped,
\* or the default when none was sent or it does not read as an integer.
ClampedLimit(raw) ==
  IF raw = NoParam \/ ParseInt(raw).nan THEN 10
  ELSE IF ParseInt(raw).val <= 1 THEN 1
  ELSE IF ParseInt(raw).val >= 50 THEN 50
  ELSE ParseInt(raw).val

ClampedOffset(raw) ==
  IF raw = NoParam \/ ParseInt(raw).nan THEN 0
  ELSE IF ParseInt(raw).val <= 0 THEN 0
  ELSE ParseInt(raw).val

\* C14: the effective limit of a request is the integer sent clamped into
\* 1..50, and 10 only when none was sent or it is unparseable; the effective
\* offset is the integer sent clamped to at least 0, and 0 otherwise.
C14_ClampedParameters ==
  \A h \in Handlers :
    pc[h] # "idle" =>
      /\ req[h].limit = ClampedLimit(req[h].rawLimit)
      /\ req[h].offset = ClampedOffset(req[h].rawOffset)

\* The position among the rows retrieved by handler h of the row with the
\* given id.
RetrievedAt(h, id) == CHOOSE k \in 1..Len(rows[h]) : rows[h][k].id = id

\* Row a comes before row b in the order of the page: higher score first,
\* equal scores in retrieval order.
PageBefore(h, a, b) ==
  \/ DoubleGreater(CompositeScore(a), CompositeScore(b))
  \/ /\ CompositeScore(a) = CompositeScore(b)
     /\ RetrievedAt(h, a.id) < RetrievedAt(h, b.id)

\* C15: the results of a computed page are accepted retrieved rows, each once,
\* in descending score with ties in retrieval order, at most limit of them,
\* and an accepted row is left out only when the page is full of rows that
\* come before it.
C15_SortedByScore ==
  \A h \in Handlers :
    AnsweredFromMiss(h) =>
      LET res == resp[h].body.results
      IN  /\ Len(res) <= req[h].limit
          /\ \A i \in 1..Len(res) :
               \E k \in 1..Len(rows[h]) :
                 /\ rows[h][k].id = res[i].id
                 /\ KeptBySpec(rows[h][k], req[h].q)
                 /\ res[i].smart_score = CompositeScore(rows[h][k])
          /\ \A i, j \in 1..Len(res) : i < j => PageBefore(h, res[i], res[j])
          /\ \A k \in 1..Len(rows[h]) :
               (KeptBySpec(rows[h][k], req[h].q)
                  /\ \A i \in 1..Len(res) : res[i].id # rows[h][k].id)
                 => /\ Len(res) = req[h].limit
                    /\ \A i \in 1..Len(res) : PageBefore(h, res[i], rows[h][k])

C15_Witness ==
  \E h \in Handlers :
    /\ AnsweredFromMiss(h)
    /\ Len(rows[h]) = 2
    /\ Len(resp[h].body.results) = 2
    /\ rows[h][1].id = 1
    /\ resp[h].body.results[1].id = 3
    /\ DoubleGreater(resp[h].body.results[1].smart_score,
                     resp[h].body.results[2].smart_score)

\* C16: a computed page has the fields total, count, limit, offset and
\* results, total and count both being the number of results, between 1 and
\* the limit, whatever the count request returned.
C16_TotalIsCount ==
  \A h \in Handlers :
    AnsweredFromMiss(h) =>
      /\ DOMAIN resp[h].body = {"total", "count", "limit", "offset", "results"}
      /\ resp[h].body.total = Len(resp[h].body.results)
      /\ resp[h].body.count = Len(resp[h].body.results)
      /\ resp[h].body.count >= 1
      /\ resp[h].body.count <= resp[h].body.limit
      /\ resp[h].body.limit = req[h].limit

C16_Witness ==
  \E h \in Handlers :
    /\ AnsweredFromMiss(h)
    /\ total[h] = 0
    /\ resp[h].body.total = 2
    /\ resp[h].body.count = 2
    /\ resp[h].body.limit = 50

\* The float differs from the exact hundredths by less than one part in 2^40.
NearExact(score, hundredths) ==
  /\ score.h = hundredths
  /\ score.e < Pow2(19)
  /\ 0 - score.e < Pow2(19)

\* C17: the score of a row is the float 2 * name_similarity + rank - 0.15 * d,
\* absent similarity and rank counting 0 and an absent distance 10, equal to
\* the exact value up to rounding; of two rows with the same rank and
\* distance, the one with the larger name similarity has no smaller score.
C17_ScoreMonotone ==
  probe.op = "scored" =>
    /\ probe.a.smart_score = CompositeScore(probe.a)
    /\ probe.b.smart_score = CompositeScore(probe.b)
    /\ NearExact(probe.a.smart_score, ExactScore(probe.a))
    /\ NearExact(probe.b.smart_score, ExactScore(probe.b))
    /\ SimilarityOf(probe.a) <= SimilarityOf(probe.b)
         => DoubleAtLeast(probe.b.smart_score, probe.a.smart_score)

C17_Witness ==
  /\ probe.op = "scored"
  /\ DOMAIN probe.a = {"id", "name_similarity", "smart_score"}
  /\ DOMAIN probe.b = {"id", "name_similarity", "smart_score"}
  /\ probe.a.name_similarity = 5
  /\ probe.b.name_similarity = 100
  /\ probe.a.smart_score.h = 0 - 140
  /\ probe.b.smart_score.h = 50

\* C19: the cache keys of two accepted requests are equal exactly when the
\* requests have the same query text, character for character, the same
\* effective limit and the same effective offset.
C19_KeyInjective ==
  probe.op = "keys" =>
    (probe.key1 = probe.key2 <=>
       /\ probe.q1 = probe.q2
       /\ probe.limit1 = probe.limit2
       /\ probe.offset1 = probe.offset2)

C19_Witness ==
  /\ probe.op = "keys"
  /\ probe.q1 = <<":", "1", Space>>
  /\ probe.q2 = <<":", "1">>
  /\ probe.limit1 = probe.limit2
  /\ probe.offset1 = probe.offset2
  /\ probe.key1 # probe.key2
  /\ probe.key2 = <<"s", "e", "a", "r", "c", "h", ":", ":", "1", ":", "1", "0", ":", "1">>

\* C18: every cached page holds at least one result; a request answered 400
\* or 404 or failed by a storage request has built no page and made no call
\* to write the cache, and the one answered 404 has run strategy 1; a step
\* that adds or changes a cache entry stores the page a handler has built,
\* under the key of its request, all other entries kept; and the handler
\* whose page was stored goes on to answer 200 with that very page.
C18_OnlySuccessIsCached ==
  /\ [](\A k \in DOMAIN cache :
          Has(cache[k], "results") /\ Len(cache[k].results) >= 1)
  /\ [](\A h \in Handlers :
          (/\ pc[h] = "done"
           /\ \/ resp[h].status \in {400, 404}
              \/ \E i \in 1..Len(calls[h]) :
                   calls[h][i].op \in StorageOps /\ ~calls[h][i].ok)
            => /\ response[h] = NoPage
               /\ \A i \in 1..Len(calls[h]) : calls[h][i].op # "setCache"
               /\ resp[h].status = 404
                    => \E i \in 1..Len(calls[h]) : calls[h][i].op = "mainSql")
  /\ [][(\E k \in DOMAIN cache' : k \notin DOMAIN cache \/ cache'[k] # cache[k]) =>
          \E h \in Handlers :
            /\ pc[h] = "setCache"
            /\ pc'[h] = "setCacheStored"
            /\ Key(h) \in DOMAIN cache'
            /\ cache'[Key(h)] = response[h]
            /\ \A k \in DOMAIN cache' \ {Key(h)} :
                 k \in DOMAIN cache /\ cache'[k] = cache[k]]_vars
  /\ [][\A h \in Handlers :
          (pc[h] = "setCacheStored" /\ pc'[h] # "setCacheStored")
            => /\ pc'[h] = "done"
               /\ resp'[h] = [status |-> 200, body |-> response[h]]]_vars

====
